---- MODULE Spec2Model ----
(***************************************************************************)
(* Authorization and scoping of the telemetry dashboard backend            *)
(* (zxzinn/threat_graph): the agent-detail routes, the modbus-events       *)
(* routes and ManageController.  A request is resolved to a current_user   *)
(* (FastAPI Depends) when it starts and is then handled by its route.      *)
(***************************************************************************)
EXTENDS Integers, FiniteSets, Sequences, TLC

\* ------------------------------------------------------------- bounds
MaxUsers == 3
MaxGroups == 2
MaxAgents == 2
MaxSlots == 2
MaxClock == 1

\* timedelta(days=30), in days
ThirtyDays == 30

Users == 1..MaxUsers
Groups == 1..MaxGroups
Agents == 1..MaxAgents
Slots == 1..MaxSlots
Clock == 0..MaxClock

\* ------------------------------------------------------------- tables
\* UserSignup rows: user 1 is the admin, the others are operators; user 2
\* carries the username the modbus route names.
UserRole(u) == IF u = 1 THEN "admin" ELSE "operator"

Username(u) == IF u = 2 THEN "redteam2" ELSE "user"

\* Platform group membership: the live agents are spread over the groups
\* 1..MaxGroups-1; the last group has no live agent (all decommissioned).
AgentsOfGroup(g) == IF g = MaxGroups THEN {} ELSE {a \in Agents : (a % (MaxGroups - 1)) + 1 = g}

\* Agent directory: the name of an agent, and the agent a name refers to.
AgentName(a) == [label |-> a]

NoName == [label |-> 0]

ResolveAgentRef(n) == {a \in Agents : AgentName(a) = n}

AgentDetailByName == {"agent-info", "agent_mitre", "agent_ransomware"}

AgentDetailById == {"agent_cve", "agent_ioc", "agent_compliance"}

ModbusEndpoints == {"get-events", "post-events"}

AggregateEndpoints == {"total-agents"}

Endpoints == AgentDetailByName \cup AgentDetailById \cup ModbusEndpoints \cup AggregateEndpoints

\* Points of a handler at which a collaborator can raise an unexpected error.
Faults == {"none", "get_user_groups", "check_user_permission", "fetch"}

VARIABLES disabled, group_owner, reqs

vars == <<disabled, group_owner, reqs>>


\* ------------------------------------------------------------- values
\* group_names of the by-id routes: Python's None, or a list of group names.
NoneGroups == [is_none |-> TRUE, names |-> {}]

GroupList(gs) == [is_none |-> FALSE, names |-> gs]

\* Mutant of Falsy: only None is rejected, the empty list passes.
Falsy_OnlyNone(group_names) == group_names.is_none

\* Python truthiness of group_names: None and the empty list are falsy.
Falsy(group_names) == group_names.is_none \/ group_names.names = {}

NoCall == [called |-> FALSE, start_time |-> 0, end_time |-> 0, group_names |-> NoneGroups]

\* What the body of a handler's try block ends with: the exception it raised
\* (exc = "none" when it returned) and what it did before.
Raised(exc, exc_msg, queried) ==
    [exc |-> exc, exc_msg |-> exc_msg, queried |-> queried, fetched |-> {},
     count |-> -1, call |-> NoCall, created |-> FALSE, read |-> FALSE]

Returned(fetched) ==
    [exc |-> "none", exc_msg |-> "", queried |-> TRUE, fetched |-> fetched,
     count |-> -1, call |-> NoCall, created |-> FALSE, read |-> FALSE]

NoOut == [kind |-> "none", msg |-> ""] @@ Raised("none", "", FALSE)

NoUser == [id |-> 0, user_role |-> "none", username |-> "none", disabled |-> FALSE]

Idle == [st |-> "idle", cu |-> NoUser, ep |-> "none", agent_id |-> 0,
         agent_name |-> NoName, utcnow |-> 0, out |-> NoOut]

\* ------------------------------------------------------------- collaborators
\* AuthController.get_current_user: the identity as stored when the request starts.
CurrentUser(u) ==
    [id |-> u, user_role |-> UserRole(u), username |-> Username(u), disabled |-> disabled[u]]

\* UserModel.get_user_groups: the names of the groups the user owns.
get_user_groups(id) == {g \in Groups : group_owner[g] = id}

\* AgentController.check_user_permission(current_user, user_groups): TRUE is a
\* permission error.  It is given the user and the groups, never the agent.
check_user_permission(current_user, user_groups) ==
    current_user.disabled \/ user_groups = {}

\* agentsInGroups: the live agents of a set of groups.
agentsInGroups(gs) == UNION {AgentsOfGroup(g) : g \in gs}

\* AgentDetailController.get_agent_*: the telemetry of the agents a reference
\* names, or an unexpected error.
FetchTelemetry(agents, fault) ==
    IF fault = "fetch" THEN Raised("Exception", "", TRUE) ELSE Returned(agents)

\* AgentModel.load_agents(start_time, end_time, group_names): every live agent
\* when group_names is None, else the live agents of the named groups.
load_agents(start_time, end_time, group_names) ==
    IF group_names.is_none THEN agentsInGroups(Groups) ELSE agentsInGroups(group_names.names)

\* ------------------------------------------------------------- agent_detail routes
\* Mutant of AgentDetailExcept: the PermissionError clause raises the caught
\* error again instead of a fresh one, so its message reaches the caller.
AgentDetailExcept_Reraise(r, internal_msg) ==
    IF r.exc = "none" THEN [kind |-> "OK", msg |-> ""] @@ r
    ELSE IF r.exc = "UnauthorizedError"
         THEN [kind |-> "Unauthorized", msg |-> "Authentication required"] @@ r
    ELSE IF r.exc = "PermissionError"
         THEN [kind |-> "Forbidden", msg |-> r.exc_msg] @@ r
    ELSE [kind |-> "Internal", msg |-> internal_msg] @@ r

\* Mutant of AgentDetailExcept: the PermissionError clause also catches
\* Exception, so an unexpected error is answered as a denial.
AgentDetailExcept_CatchAll(r, internal_msg) ==
    IF r.exc = "none" THEN [kind |-> "OK", msg |-> ""] @@ r
    ELSE IF r.exc = "UnauthorizedError"
         THEN [kind |-> "Unauthorized", msg |-> "Authentication required"] @@ r
    ELSE [kind |-> "Forbidden", msg |-> "Permission denied"] @@ r

\* The except clauses of the agent_detail handlers, in their order:
\* UnauthorizedError, PermissionError, Exception.
AgentDetailExcept(r, internal_msg) ==
    IF r.exc = "none" THEN [kind |-> "OK", msg |-> ""] @@ r
    ELSE IF r.exc = "UnauthorizedError"
         THEN [kind |-> "Unauthorized", msg |-> "Authentication required"] @@ r
    ELSE IF r.exc = "PermissionError"
         THEN [kind |-> "Forbidden", msg |-> "Permission denied"] @@ r
    ELSE [kind |-> "Internal", msg |-> internal_msg] @@ r

\* The try body shared, line for line, by agent-info, agent_mitre and
\* agent_ransomware: disabled check, admin shortcut, group permission check,
\* then the fetch by the caller-supplied agent_name.
ByNameBody(current_user, agent_name, fault) ==
    IF current_user.disabled
    THEN Raised("PermissionError", "User account is disabled", FALSE)
    ELSE IF current_user.user_role = "admin"
    THEN FetchTelemetry(ResolveAgentRef(agent_name), fault)
    ELSE IF fault = "get_user_groups" THEN Raised("Exception", "", FALSE)
    ELSE LET user_groups == get_user_groups(current_user.id) IN
         IF fault = "check_user_permission" THEN Raised("Exception", "", FALSE)
         ELSE IF check_user_permission(current_user, user_groups)
         THEN Raised("PermissionError", "Permission denied", FALSE)
         ELSE FetchTelemetry(ResolveAgentRef(agent_name), fault)

get_agent_info(current_user, agent_name, fault) ==
    AgentDetailExcept(ByNameBody(current_user, agent_name, fault), "")

\* Mutant of get_agent_mitre: the username shortcut of the modbus route is
\* copied into the admin check, so the decision depends on who asks.
get_agent_mitre_Username(current_user, agent_name, fault) ==
    AgentDetailExcept(
        IF ~current_user.disabled /\ current_user.username = "redteam2"
        THEN FetchTelemetry(ResolveAgentRef(agent_name), fault)
        ELSE ByNameBody(current_user, agent_name, fault),
        "An unexpected error occurred")

get_agent_mitre(current_user, agent_name, fault) ==
    AgentDetailExcept(ByNameBody(current_user, agent_name, fault),
                      "An unexpected error occurred")

get_agent_ransomware(current_user, agent_name, fault) ==
    AgentDetailExcept(ByNameBody(current_user, agent_name, fault),
                      "An unexpected error occurred")

\* The try body shared, line for line, by agent_cve, agent_ioc and
\* agent_compliance: group_names is None for an admin, else the caller's
\* groups; a falsy group_names is a denial; then the fetch by agent_id.
ByIdBody(current_user, agent_id, fault) ==
    IF current_user.user_role # "admin" /\ fault = "get_user_groups"
    THEN Raised("Exception", "", FALSE)
    ELSE LET group_names == IF current_user.user_role = "admin"
                            THEN NoneGroups
                            ELSE GroupList(get_user_groups(current_user.id)) IN
         IF Falsy(group_names)
         THEN Raised("PermissionError", "Permission denied", FALSE)
         ELSE FetchTelemetry({agent_id} \cap Agents, fault)

get_agent_cve(current_user, agent_id, fault) ==
    AgentDetailExcept(ByIdBody(current_user, agent_id, fault), "")

get_agent_ioc(current_user, agent_id, fault) ==
    AgentDetailExcept(ByIdBody(current_user, agent_id, fault), "")

get_agent_compliance(current_user, agent_id, fault) ==
    AgentDetailExcept(ByIdBody(current_user, agent_id, fault), "")

\* ------------------------------------------------------------- modbus_events routes
\* The except clauses of the modbus handlers: PermissionError,
\* UnauthorizedError, Exception.
ModbusExcept(r) ==
    IF r.exc = "none" THEN [kind |-> "OK", msg |-> ""] @@ r
    ELSE IF r.exc = "PermissionError"
         THEN [kind |-> "Forbidden", msg |-> "Permission denied"] @@ r
    ELSE IF r.exc = "UnauthorizedError"
         THEN [kind |-> "Unauthorized", msg |-> "Authentication required"] @@ r
    ELSE [kind |-> "Internal", msg |-> ""] @@ r

\* Mutant of get_modbus_events: the two tests are joined by "or", so a caller
\* must be both an admin and redteam2 to read the events.
get_modbus_events_Or(current_user, fault) ==
    ModbusExcept(
        IF current_user.user_role # "admin" \/ current_user.username # "redteam2"
        THEN Raised("PermissionError", "", FALSE)
        ELSE IF fault = "fetch" THEN Raised("Exception", "", TRUE)
        ELSE [Returned({}) EXCEPT !.read = TRUE])

get_modbus_events(current_user, fault) ==
    ModbusExcept(
        IF current_user.user_role # "admin" /\ current_user.username # "redteam2"
        THEN Raised("PermissionError", "", FALSE)
        ELSE IF fault = "fetch" THEN Raised("Exception", "", TRUE)
        ELSE [Returned({}) EXCEPT !.read = TRUE])

post_modbus_events(current_user, fault) ==
    ModbusExcept(
        IF current_user.user_role # "admin"
        THEN Raised("PermissionError", "", FALSE)
        ELSE IF fault = "fetch" THEN Raised("Exception", "", TRUE)
        ELSE [Returned({}) EXCEPT !.created = TRUE])

\* ------------------------------------------------------------- ManageController
\* Mutant of get_total_agents: the group filter is dropped on the way to
\* load_agents.
get_total_agents_NoFilter(group_names, now, fault) ==
    LET end_time == now
        start_time == end_time - ThirtyDays
        call == [called |-> TRUE, start_time |-> start_time, end_time |-> end_time,
                 group_names |-> NoneGroups]
    IN IF fault = "fetch"
       THEN [Raised("Exception", "", TRUE) EXCEPT !.call = call]
       ELSE LET agents == load_agents(start_time, end_time, NoneGroups) IN
            [Returned(agents) EXCEPT !.count = Cardinality(agents), !.call = call]

\* Mutant of get_total_agents: the 30 days are added to end instead of
\* subtracted.
get_total_agents_SignSlip(group_names, now, fault) ==
    LET end_time == now
        start_time == end_time + ThirtyDays
        call == [called |-> TRUE, start_time |-> start_time, end_time |-> end_time,
                 group_names |-> group_names]
    IN IF fault = "fetch"
       THEN [Raised("Exception", "", TRUE) EXCEPT !.call = call]
       ELSE LET agents == load_agents(start_time, end_time, group_names) IN
            [Returned(agents) EXCEPT !.count = Cardinality(agents), !.call = call]

\* get_total_agents(group_names): the window is [utcnow - 30 days, utcnow];
\* the number of agents load_agents returns; an error of load_agents is
\* logged and raised again.
get_total_agents(group_names, now, fault) ==
    LET end_time == now
        start_time == end_time - ThirtyDays
        call == [called |-> TRUE, start_time |-> start_time, end_time |-> end_time,
                 group_names |-> group_names]
    IN IF fault = "fetch"
       THEN [Raised("Exception", "", TRUE) EXCEPT !.call = call]
       ELSE LET agents == load_agents(start_time, end_time, group_names) IN
            [Returned(agents) EXCEPT !.count = Cardinality(agents), !.call = call]

\* The error taxonomy of the produced interface: a DENY is Forbidden with no
\* detail, anything unexpected is Internal.
SurfaceDecision(r) ==
    IF r.exc = "none" THEN [kind |-> "OK", msg |-> ""] @@ r
    ELSE IF r.exc = "PermissionError" THEN [kind |-> "Forbidden", msg |-> "Permission denied"] @@ r
    ELSE [kind |-> "Internal", msg |-> ""] @@ r

\* The aggregate route over get_total_agents: the evaluator's rules 1 to 4,
\* then the count with scope ALL (None) for an admin and the caller's groups
\* otherwise; a DENY is Forbidden, an error of the count is Internal.
get_total_agents_route(current_user, now, fault) ==
    SurfaceDecision(
        IF current_user.disabled
        THEN Raised("PermissionError", "DISABLED_ACCOUNT", FALSE)
        ELSE IF current_user.user_role = "admin"
        THEN get_total_agents(NoneGroups, now, fault)
        ELSE IF fault = "get_user_groups" THEN Raised("Exception", "", FALSE)
        ELSE LET groups == get_user_groups(current_user.id) IN
             IF groups = {}
             THEN Raised("PermissionError", "NO_MATCH", FALSE)
             ELSE get_total_agents(GroupList(groups), now, fault))

\* ------------------------------------------------------------- dispatch
Handle(r, now, fault) ==
    CASE r.ep = "agent-info" -> get_agent_info(r.cu, r.agent_name, fault)
      [] r.ep = "agent_mitre" -> get_agent_mitre(r.cu, r.agent_name, fault)
      [] r.ep = "agent_ransomware" -> get_agent_ransomware(r.cu, r.agent_name, fault)
      [] r.ep = "agent_cve" -> get_agent_cve(r.cu, r.agent_id, fault)
      [] r.ep = "agent_ioc" -> get_agent_ioc(r.cu, r.agent_id, fault)
      [] r.ep = "agent_compliance" -> get_agent_compliance(r.cu, r.agent_id, fault)
      [] r.ep = "get-events" -> get_modbus_events(r.cu, fault)
      [] r.ep = "post-events" -> post_modbus_events(r.cu, fault)
      [] r.ep = "total-agents" -> get_total_agents_route(r.cu, now, fault)

\* A fault is observable only where the handler reaches the collaborator: the
\* other choices would repeat the fault-free run.
Reaches(r, fault) ==
    fault = "none" \/ Handle(r, 0, fault).exc = "Exception"

\* ------------------------------------------------------------- state machine
Init ==
    /\ disabled = [u \in Users |-> FALSE]
    /\ group_owner \in [Groups -> Users]
    /\ reqs = [s \in Slots |-> Idle]

\* UserSignup.toggle_disabled_status through ManageController.toggle_user_status.
toggle_user_status(user_id) ==
    /\ disabled' = [disabled EXCEPT ![user_id] = ~disabled[user_id]]
    /\ UNCHANGED <<group_owner, reqs>>

\* A request arrives: Depends(get_current_user) resolves the caller, and the
\* request takes the lowest free slot.
StartRequest(s, u, ep, a) ==
    /\ reqs[s].st = "idle"
    /\ \A t \in Slots : t < s => reqs[t].st # "idle"
    /\ ep \notin AgentDetailById \cup AgentDetailByName => a = 1
    /\ reqs' = [reqs EXCEPT ![s] =
                  [st |-> "started", cu |-> CurrentUser(u), ep |-> ep,
                   agent_id |-> IF ep \in AgentDetailById THEN a ELSE 0,
                   agent_name |-> IF ep \in AgentDetailByName THEN AgentName(a) ELSE NoName,
                   utcnow |-> 0, out |-> NoOut]]
    /\ UNCHANGED <<disabled, group_owner>>

\* The handler of a started request runs to its response; utcnow is the clock
\* get_total_agents read, when it was called.  The telemetry and event stores
\* are collaborators: what the handler read from them or created in them is
\* kept in the response (fetched, read, created).
HandleRequest(s, now, fault) ==
    /\ reqs[s].st = "started"
    /\ Reaches(reqs[s], fault)
    /\ LET out == Handle(reqs[s], now, fault) IN
       /\ ~out.call.called => now = 0
       /\ reqs' = [reqs EXCEPT ![s].st = "done", ![s].out = out,
                               ![s].utcnow = IF out.call.called THEN now ELSE 0]
    /\ UNCHANGED <<disabled, group_owner>>

\* The response is sent and the slot is free again.
Respond(s) ==
    /\ reqs[s].st = "done"
    /\ reqs' = [reqs EXCEPT ![s] = Idle]
    /\ UNCHANGED <<disabled, group_owner>>

Serial == \A s \in Slots : reqs[s].st = "idle"

\* Requests served one at a time.
Next ==
    \/ \E u \in Users : toggle_user_status(u)
    \/ \E s \in Slots, u \in Users, ep \in Endpoints, a \in Agents :
          Serial /\ StartRequest(s, u, ep, a)
    \/ \E s \in Slots, now \in Clock, fault \in Faults : HandleRequest(s, now, fault)
    \/ \E s \in Slots : Respond(s)

Spec == Init /\ [][Next]_vars

\* A request for the endpoint and resource of a request already in a slot.
SameRequest(ep, a) ==
    \E t \in Slots :
        /\ reqs[t].st # "idle"
        /\ reqs[t].ep = ep
        /\ ep \in AgentDetailById => reqs[t].agent_id = a
        /\ ep \in AgentDetailByName => reqs[t].agent_name = AgentName(a)

\* Requests served concurrently: while requests are in progress or answered,
\* the same request arrives again, from any caller.
NextPar ==
    \/ \E u \in Users : toggle_user_status(u)
    \/ \E s \in Slots, u \in Users, ep \in Endpoints, a \in Agents :
          (Serial \/ SameRequest(ep, a)) /\ StartRequest(s, u, ep, a)
    \/ \E s \in Slots, now \in Clock, fault \in Faults : HandleRequest(s, now, fault)
    \/ \E s \in Slots : Respond(s)

SpecPar == Init /\ [][NextPar]_vars

\* ------------------------------------------------------------- properties
AgentDetailEndpoints == AgentDetailByName \cup AgentDetailById

IsDone(s) == reqs[s].st = "done"

\* The agent a finished or started request names, as the directory resolves it.
RequestedAgents(r) ==
    IF r.ep \in AgentDetailById THEN {r.agent_id} \cap Agents
    ELSE IF r.ep \in AgentDetailByName THEN ResolveAgentRef(r.agent_name)
    ELSE {}

\* The agents in the scope of the caller of a request.
CallerScope(r) == agentsInGroups(get_user_groups(r.cu.id))

\* The handler answered without any collaborator raising an unexpected error.
NoFault(r) == r.out.exc # "Exception"

\* No telemetry or event was read, returned or created for the request.
NothingTouched(r) ==
    /\ ~r.out.queried
    /\ r.out.fetched = {}
    /\ ~r.out.call.called
    /\ ~r.out.created
    /\ ~r.out.read

\* C1: a request of an identity whose disabled flag is set is denied on every
\* endpoint, whatever its role and the resource, and nothing is fetched or
\* created; a disabled admin is denied like any other disabled identity.
C1_DisabledAlwaysDenied ==
    \A s \in Slots :
        (IsDone(s) /\ reqs[s].cu.disabled /\ NoFault(reqs[s])) =>
            /\ reqs[s].out.kind = "Forbidden"
            /\ NothingTouched(reqs[s])

\* C2: an enabled admin is allowed on every agent-detail endpoint: the handler
\* reaches the fetch for the requested agent and never answers Forbidden,
\* whatever groups the admin owns.
C2_AdminAlwaysAllowed ==
    \A s \in Slots :
        (/\ IsDone(s)
         /\ reqs[s].cu.user_role = "admin"
         /\ ~reqs[s].cu.disabled
         /\ reqs[s].ep \in AgentDetailEndpoints) =>
            /\ reqs[s].out.kind # "Forbidden"
            /\ reqs[s].out.queried
            /\ NoFault(reqs[s]) => reqs[s].out.fetched = RequestedAgents(reqs[s])

\* C3: for an enabled non-admin the agents whose data an agent-detail request
\* returns lie in agentsInGroups(groupsOwnedBy(identity)), and a request that
\* names an agent outside that scope, by id or by name, is denied.
C3_ScopeWithinOwnedGroups ==
    \A s \in Slots :
        (/\ IsDone(s)
         /\ reqs[s].cu.user_role # "admin"
         /\ ~reqs[s].cu.disabled
         /\ reqs[s].ep \in AgentDetailEndpoints
         /\ NoFault(reqs[s])) =>
            /\ reqs[s].out.fetched \subseteq CallerScope(reqs[s])
            /\ ~(RequestedAgents(reqs[s]) \subseteq CallerScope(reqs[s])) =>
                   reqs[s].out.kind = "Forbidden"

C5_EmptyScopeIsZeroCount ==
    \A s \in Slots :
        (/\ IsDone(s)
         /\ reqs[s].ep \in AggregateEndpoints
         /\ reqs[s].cu.user_role # "admin"
         /\ ~reqs[s].cu.disabled
         /\ NoFault(reqs[s])) =>
            /\ (get_user_groups(reqs[s].cu.id) # {} /\ CallerScope(reqs[s]) = {}) =>
                   /\ reqs[s].out.kind = "OK"
                   /\ reqs[s].out.count = 0
                   /\ reqs[s].out.fetched = {}
                   /\ reqs[s].out.call.called
                   /\ reqs[s].out.call.group_names = GroupList(get_user_groups(reqs[s].cu.id))
            /\ get_user_groups(reqs[s].cu.id) = {} =>
                   /\ reqs[s].out.kind = "Forbidden"
                   /\ reqs[s].out.count # 0

C5_Witness ==
    \E s \in Slots :
        /\ IsDone(s)
        /\ reqs[s].ep = "total-agents"
        /\ reqs[s].cu.user_role = "operator"
        /\ ~reqs[s].cu.disabled
        /\ get_user_groups(reqs[s].cu.id) = {MaxGroups}
        /\ reqs[s].out.kind = "OK"
        /\ reqs[s].out.count = 0

\* C6: every denial is surfaced as the same Forbidden value, whether the
\* handler denied for a disabled account or for no matching group.
C6_DenialsIndistinguishable ==
    \A s \in Slots :
        (IsDone(s) /\ reqs[s].out.exc = "PermissionError") =>
            /\ reqs[s].out.kind = "Forbidden"
            /\ reqs[s].out.msg = "Permission denied"

C6_Witness ==
    \E s \in Slots :
        /\ IsDone(s)
        /\ reqs[s].ep \in AgentDetailByName
        /\ reqs[s].out.exc = "PermissionError"
        /\ reqs[s].out.exc_msg = "User account is disabled"
        /\ reqs[s].out.kind = "Forbidden"

\* C7: an unexpected error of a collaborator is surfaced as Internal, never as
\* a denial; Forbidden is answered only when the handler's permission check
\* denied, and then nothing was fetched; get_total_agents raises its error.
C7_FailureIsNotDenial ==
    \A s \in Slots :
        IsDone(s) =>
            /\ reqs[s].out.exc = "Exception" =>
                   /\ reqs[s].out.kind = "Internal"
                   /\ reqs[s].out.fetched = {}
                   /\ reqs[s].out.count = -1
            /\ reqs[s].out.kind = "Forbidden" =>
                   /\ reqs[s].out.exc = "PermissionError"
                   /\ ~reqs[s].out.queried

C7_Witness ==
    \E s \in Slots :
        /\ IsDone(s)
        /\ reqs[s].ep = "agent_mitre"
        /\ reqs[s].out.exc = "Exception"
        /\ ~reqs[s].out.queried
        /\ reqs[s].out.kind = "Internal"

\* C8: the identity of a request is the stored identity at the request's
\* start, and a request that starts while its identity is disabled is denied
\* on every endpoint.
C8_DisabledTakesEffectAtOnce ==
    [][\A s \in Slots :
          /\ (reqs[s].st = "idle" /\ reqs'[s].st = "started") =>
                 reqs'[s].cu.disabled = disabled[reqs'[s].cu.id]
          /\ (reqs[s].st = "started" /\ reqs'[s].st = "done"
                /\ reqs[s].cu.disabled /\ NoFault(reqs'[s])) =>
                 reqs'[s].out.kind = "Forbidden"]_vars

\* The decision of a finished request: allowed or not, the reason raised, and
\* the agents or count returned.
Decision(r) ==
    [allowed |-> r.out.kind = "OK", kind |-> r.out.kind, reason |-> r.out.exc_msg,
     scope |-> r.out.fetched, count |-> r.out.count]

\* The inputs of the decision of a request.
DecisionInputs(r) ==
    [ep |-> r.ep, agent_id |-> r.agent_id, agent_name |-> r.agent_name,
     role |-> r.cu.user_role, disabled |-> r.cu.disabled,
     groups |-> get_user_groups(r.cu.id), scope |-> CallerScope(r)]

C10_DefaultWindow ==
    \A s \in Slots :
        (IsDone(s) /\ reqs[s].out.call.called) =>
            /\ reqs[s].out.call.end_time = reqs[s].utcnow
            /\ reqs[s].out.call.start_time = reqs[s].out.call.end_time - ThirtyDays
            /\ reqs[s].out.call.start_time <= reqs[s].out.call.end_time

C10_Witness ==
    \E s \in Slots :
        /\ IsDone(s)
        /\ reqs[s].out.call.called
        /\ ~reqs[s].out.call.group_names.is_none
        /\ reqs[s].utcnow = MaxClock
        /\ reqs[s].out.kind = "OK"

\* C11: on the modbus routes the answer depends on the role and the username
\* alone: post-events creates an event exactly for an admin, get-events
\* returns the events exactly for an admin or the username redteam2; any other
\* caller is answered Forbidden and no event is read or created, whatever
\* groups the caller owns and whatever its disabled flag.
C11_ModbusByRoleAndUsername ==
    \A s \in Slots :
        (IsDone(s) /\ reqs[s].ep \in ModbusEndpoints /\ NoFault(reqs[s])) =>
            LET allowed == IF reqs[s].ep = "post-events"
                           THEN reqs[s].cu.user_role = "admin"
                           ELSE reqs[s].cu.user_role = "admin"
                                    \/ reqs[s].cu.username = "redteam2"
            IN /\ (reqs[s].out.kind = "OK") <=> allowed
               /\ reqs[s].out.created <=> (allowed /\ reqs[s].ep = "post-events")
               /\ reqs[s].out.read <=> (allowed /\ reqs[s].ep = "get-events")
               /\ ~allowed => (reqs[s].out.kind = "Forbidden" /\ NothingTouched(reqs[s]))

C11_Witness ==
    \E s \in Slots :
        /\ IsDone(s)
        /\ reqs[s].ep = "get-events"
        /\ reqs[s].cu.user_role = "operator"
        /\ reqs[s].cu.username = "redteam2"
        /\ get_user_groups(reqs[s].cu.id) = {}
        /\ reqs[s].out.kind = "OK"
        /\ reqs[s].out.read

====
